---- MODULE Spec2Model ----
(***************************************************************************)
(* A model of the generic CSP solver of src/CSP.py (backtracking, forward  *)
(* checking, AC-3, MRV and LCV), run on CSP instances shaped like the one  *)
(* of src/Sudoku.py: integer values, a symmetric neighbour graph, and a    *)
(* pairwise constraint that fails only for equal values on neighbours.     *)
(*                                                                         *)
(* Python dicts keep insertion order, and the code depends on it (MRV tie  *)
(* break, the early return of forwardChecking), so a dict is a record      *)
(*   [k |-> sequence of keys in insertion order, v |-> key -> value].      *)
(* A domain map has the extra field none, TRUE for Python's None.          *)
(* Iteration over a set of variables follows the variables' numbers; the   *)
(* instances range over every graph and every start domain, so this fixes  *)
(* no generality.  Iteration over a set of values is left open: every      *)
(* order is a behaviour of the model.                                      *)
(***************************************************************************)
EXTENDS Integers, Sequences, FiniteSets, TLC

\* Bounds of the model.
MaxVars == 3
MaxVal == 2
\* Direct calls of forwardChecking: two assigned and two unassigned variables.
MaxFCVars == 4
\* Direct calls of orderDomain: values that prune different numbers of values.
MaxLCVVal == 3

VARIABLES
    MRV,                \* self.MRV
    LCV,                \* self.LCV
    variables,          \* the CSP's set of variables
    neighbors,          \* variable -> set of variables sharing a constraint
    startDomain,        \* variable -> its start domain
    initialAssignment,  \* the caller's dict object passed to the entry points
    given,              \* the entries that object had when the caller built it
    strategy,           \* the entry point that is running, or "idle"
    assignment,         \* the working dict shared by all recursive calls
    stack,              \* the recursive calls in progress, innermost last
    result,             \* entry point -> what it returned
    call                \* a direct call of ac3, forwardChecking or orderDomain

vars == <<MRV, LCV, variables, neighbors, startDomain, initialAssignment, given,
          strategy, assignment, stack, result, call>>

-----------------------------------------------------------------------------
\* Python dicts and sets.

NoVar == 0

EmptyFn == [y \in {} |-> 0]

EmptyAssignment == [k |-> <<>>, v |-> EmptyFn]

EmptyDomains == [none |-> FALSE, k |-> <<>>, v |-> EmptyFn]

\* The value None where a domain map is expected.
NoneDomains == [none |-> TRUE, k |-> <<>>, v |-> EmptyFn]

Range(s) == {s[i] : i \in 1..Len(s)}

keys(d) == DOMAIN d.v

\* dict.pop(x): the entry leaves the dict, the other keys keep their order.
pop(d, x) ==
    [d EXCEPT !.k = SelectSeq(d.k, LAMBDA y : y # x),
              !.v = [y \in (DOMAIN d.v) \ {x} |-> d.v[y]]]

\* d[x] = val: an existing key keeps its place, a new key goes last.
setitem(d, x, val) ==
    IF x \in DOMAIN d.v
    THEN [d EXCEPT !.v = [y \in DOMAIN d.v |-> IF y = x THEN val ELSE d.v[y]]]
    ELSE [d EXCEPT !.k = Append(d.k, x),
                   !.v = [y \in (DOMAIN d.v) \cup {x} |-> IF y = x THEN val ELSE d.v[y]]]

\* The sequences a loop over the set S may run through.
Orders(S) ==
    {s \in [1..Cardinality(S) -> S] : \A i, j \in 1..Cardinality(S) : i # j => s[i] # s[j]}

\* The sequence a loop over a set of variables runs through.
IterVars(S) ==
    CHOOSE s \in Orders(S) : \A i, j \in 1..Cardinality(S) : i < j => s[i] < s[j]

-----------------------------------------------------------------------------
\* The problem definition.

isValidPairwise(var1, val1, var2, val2) ==
    ~(val1 = val2 /\ var2 \in neighbors[var1])

remainingVariables(asg) == variables \ keys(asg)

\* isValid with the return True inside the loop over the assigned variables:
\* only the first assigned variable is checked against its neighbours.
isValidFirstOnly(asg) ==
    \A var \in (IF asg.k = <<>> THEN {} ELSE {asg.k[1]}) :
        \A neighbour \in neighbors[var] \cap keys(asg) :
            isValidPairwise(var, asg.v[var], neighbour, asg.v[neighbour])

isValid(asg) ==
    \A var \in keys(asg) :
        \A neighbour \in neighbors[var] \cap keys(asg) :
            isValidPairwise(var, asg.v[var], neighbour, asg.v[neighbour])

\* isComplete without the count of the remaining variables.
isCompleteNoCount(asg) == isValid(asg)

isComplete(asg) ==
    isValid(asg) /\ Cardinality(remainingVariables(asg)) = 0

RECURSIVE domainsFromOrder(_, _)
domainsFromOrder(order, d) ==
    IF order = <<>> THEN d
    ELSE domainsFromOrder(Tail(order), setitem(d, Head(order), startDomain[Head(order)]))

\* domainsFromAssignment without the test "if v not in assignment": the
\* pre-fixed variables get a domain entry too.
domainsFromAssignmentAll(asg, vs) ==
    domainsFromOrder(IterVars(vs), EmptyDomains)

domainsFromAssignment(asg, vs) ==
    domainsFromOrder(IterVars(vs \ keys(asg)), EmptyDomains)

-----------------------------------------------------------------------------
\* The consistency engine.

\* The loop over domains.items() for one assigned variable.  st.returned is
\* set when the loop ends in the return of the emptiness test, which reads
\* the domain as it was before this pass pruned it.
RECURSIVE fcUnassigned(_, _, _, _)
fcUnassigned(st, assigned_var, assigned_value, order) ==
    IF order = <<>> THEN st
    ELSE LET unassigned_var == Head(order)
             domain == st.domains.v[unassigned_var]
             elems_to_remove ==
                 {elem \in domain :
                     ~isValidPairwise(assigned_var, assigned_value, unassigned_var, elem)}
             next == [domains |-> setitem(st.domains, unassigned_var,
                                          domain \ elems_to_remove),
                      nr_pruned |-> st.nr_pruned + Cardinality(elems_to_remove),
                      returned |-> Cardinality(domain) = 0]
         IN  IF next.returned THEN next
             ELSE fcUnassigned(next, assigned_var, assigned_value, Tail(order))

\* The loop over adjusted_assignment.items().
RECURSIVE fcAssigned(_, _, _)
fcAssigned(st, asg, order) ==
    IF order = <<>> \/ st.returned THEN st
    ELSE fcAssigned(fcUnassigned(st, Head(order), asg.v[Head(order)], st.domains.k),
                    asg, Tail(order))

\* forwardChecking that never reads variable: the whole assignment is checked.
forwardCheckingWhole(asg, domains, variable) ==
    fcAssigned([domains |-> domains, nr_pruned |-> 0, returned |-> FALSE], asg, asg.k)

\* forwardChecking(assignment, domains, variable); variable = NoVar is None.
\* The result is a copy: [domains, nr_pruned].
forwardChecking(asg, domains, variable) ==
    fcAssigned([domains |-> domains, nr_pruned |-> 0, returned |-> FALSE],
               asg, IF variable = NoVar THEN asg.k ELSE <<variable>>)

\* removeInconsistentValues with var1 and var2 swapped where the adjusted
\* domain is computed: var1 is given the supported values of var2.
removeInconsistentValuesSwapped(domains, var1, var2) ==
    LET adjusted_domain_var1 ==
            {val_var2 \in domains.v[var2] :
                \E val_var1 \in domains.v[var1] :
                    isValidPairwise(var2, val_var2, var1, val_var1)}
    IN  IF adjusted_domain_var1 # domains.v[var1]
        THEN [domains |-> setitem(domains, var1, adjusted_domain_var1), changed |-> TRUE]
        ELSE [domains |-> domains, changed |-> FALSE]

\* removeInconsistentValues that always returns True.
removeInconsistentValuesAlways(domains, var1, var2) ==
    LET adjusted_domain_var1 ==
            {val_var1 \in domains.v[var1] :
                \E val_var2 \in domains.v[var2] :
                    isValidPairwise(var1, val_var1, var2, val_var2)}
    IN  [domains |-> setitem(domains, var1, adjusted_domain_var1), changed |-> TRUE]

\* [domains, changed]: the values of var1 without support in var2 leave
\* var1's domain.
removeInconsistentValues(domains, var1, var2) ==
    LET adjusted_domain_var1 ==
            {val_var1 \in domains.v[var1] :
                \E val_var2 \in domains.v[var2] :
                    isValidPairwise(var1, val_var1, var2, val_var2)}
    IN  IF adjusted_domain_var1 # domains.v[var1]
        THEN [domains |-> setitem(domains, var1, adjusted_domain_var1), changed |-> TRUE]
        ELSE [domains |-> domains, changed |-> FALSE]

\* The initial worklist: every ordered pair of distinct unassigned variables.
RECURSIVE ac3Pairs(_, _)
ac3Pairs(order1, order2) ==
    IF order1 = <<>> THEN <<>>
    ELSE SelectSeq([i \in 1..Len(order2) |-> <<Head(order1), order2[i]>>],
                   LAMBDA arc : arc[1] # arc[2])
         \o ac3Pairs(Tail(order1), order2)

\* The initial worklist with only the arcs from a variable to a later one.
ac3QueueForward(asg) ==
    SelectSeq(ac3Pairs(IterVars(remainingVariables(asg)), IterVars(remainingVariables(asg))),
              LAMBDA arc : arc[1] < arc[2])

ac3Queue(asg) ==
    ac3Pairs(IterVars(remainingVariables(asg)), IterVars(remainingVariables(asg)))

\* The re-enqueue loop without the test "if neighbour in assignment".
RECURSIVE ac3EnqueueAssigned(_, _, _, _)
ac3EnqueueAssigned(queue, asg, tail_var, order) ==
    IF order = <<>> THEN queue
    ELSE LET neighbour == Head(order)
             new_arc == <<neighbour, tail_var>>
         IN  IF new_arc \in Range(queue)
             THEN ac3EnqueueAssigned(queue, asg, tail_var, Tail(order))
             ELSE ac3EnqueueAssigned(Append(queue, new_arc), asg, tail_var, Tail(order))

\* The loop over neighbors(tail_var) that re-enqueues the arcs into tail_var.
RECURSIVE ac3Enqueue(_, _, _, _)
ac3Enqueue(queue, asg, tail_var, order) ==
    IF order = <<>> THEN queue
    ELSE LET neighbour == Head(order)
             new_arc == <<neighbour, tail_var>>
         IN  IF neighbour \in keys(asg) \/ new_arc \in Range(queue)
             THEN ac3Enqueue(queue, asg, tail_var, Tail(order))
             ELSE ac3Enqueue(Append(queue, new_arc), asg, tail_var, Tail(order))

\* One pass of the while loop that re-enqueues nothing.
ac3StepNoRequeue(st, asg) ==
    LET tail_var == Head(st.queue)[1]
        head_var == Head(st.queue)[2]
        r == removeInconsistentValues(st.domains, tail_var, head_var)
    IN  [domains |-> r.domains, queue |-> Tail(st.queue),
         failed |-> Cardinality(r.domains.v[tail_var]) = 0]

\* One pass of the while loop on [domains, queue, failed]; failed is the
\* return of None.
ac3Step(st, asg) ==
    LET tail_var == Head(st.queue)[1]
        head_var == Head(st.queue)[2]
        popped == Tail(st.queue)
        r == removeInconsistentValues(st.domains, tail_var, head_var)
        queue == IF r.changed
                 THEN ac3Enqueue(popped, asg, tail_var, IterVars(neighbors[tail_var]))
                 ELSE popped
    IN  [domains |-> r.domains, queue |-> queue,
         failed |-> Cardinality(r.domains.v[tail_var]) = 0]

\* The re-enqueue loop of the variant of ac3 that appends new_arc whether or
\* not it is pending (lines 327-332 without the test of line 331).
RECURSIVE ac3EnqueueAll(_, _, _, _)
ac3EnqueueAll(queue, asg, tail_var, order) ==
    IF order = <<>> THEN queue
    ELSE LET neighbour == Head(order)
             new_arc == <<neighbour, tail_var>>
         IN  IF neighbour \in keys(asg)
             THEN ac3EnqueueAll(queue, asg, tail_var, Tail(order))
             ELSE ac3EnqueueAll(Append(queue, new_arc), asg, tail_var, Tail(order))

\* One pass of the while loop of that variant.
ac3StepAll(st, asg) ==
    LET tail_var == Head(st.queue)[1]
        head_var == Head(st.queue)[2]
        popped == Tail(st.queue)
        r == removeInconsistentValues(st.domains, tail_var, head_var)
        queue == IF r.changed
                 THEN ac3EnqueueAll(popped, asg, tail_var, IterVars(neighbors[tail_var]))
                 ELSE popped
    IN  [domains |-> r.domains, queue |-> queue,
         failed |-> Cardinality(r.domains.v[tail_var]) = 0]

RECURSIVE ac3Loop(_, _)
ac3Loop(st, asg) ==
    IF st.failed \/ Len(st.queue) = 0 THEN st ELSE ac3Loop(ac3Step(st, asg), asg)

\* ac3(assignment, domains, variable): the parameter variable is never read.
\* The result is the new domain map, or NoneDomains.
ac3(asg, domains) ==
    LET end == ac3Loop([domains |-> domains, queue |-> ac3Queue(asg), failed |-> FALSE], asg)
    IN  IF end.failed THEN NoneDomains ELSE end.domains

-----------------------------------------------------------------------------
\* The heuristics.

\* The variables selectVariable may return; the empty set when it raises
\* (min() of nothing, random.choice of nothing, None.items()).
selectVariable(asg, domains) ==
    IF ~MRV THEN remainingVariables(asg)
    ELSE IF domains.none \/ Len(domains.k) = 0 THEN {}
    ELSE LET len(i) == Cardinality(domains.v[domains.k[i]])
             first == CHOOSE i \in 1..Len(domains.k) :
                          /\ \A j \in 1..Len(domains.k) : len(i) <= len(j)
                          /\ \A j \in 1..(i - 1) : len(j) > len(i)
         IN  {domains.k[first]}

\* orderDomain that excludes every value whose forward check prunes anything,
\* instead of every value whose forward check empties a domain.
orderDomainNoPruning(asg, domains, var) ==
    IF domains.none THEN {}
    ELSE IF ~LCV
    THEN {[values |-> ord, domains |-> domains] : ord \in Orders(domains.v[var])}
    ELSE LET domain_to_order == domains.v[var]
             popped == pop(domains, var)
             fc(val) == forwardChecking(setitem(asg, var, val), popped, var)
             kept == {val \in domain_to_order : fc(val).nr_pruned = 0}
         IN  {[values |-> ord, domains |-> setitem(popped, var, domain_to_order)] :
                  ord \in Orders(kept)}

\* orderDomain that sorts with reverse=True.
orderDomainDescending(asg, domains, var) ==
    IF domains.none THEN {}
    ELSE IF ~LCV
    THEN {[values |-> ord, domains |-> domains] : ord \in Orders(domains.v[var])}
    ELSE LET domain_to_order == domains.v[var]
             popped == pop(domains, var)
             fc(val) == forwardChecking(setitem(asg, var, val), popped, var)
             kept == {val \in domain_to_order :
                         \A pruned_var \in keys(fc(val).domains) :
                             Cardinality(fc(val).domains.v[pruned_var]) # 0}
             sorted == {ord \in Orders(kept) :
                           \A i, j \in 1..Len(ord) :
                               i < j => fc(ord[i]).nr_pruned >= fc(ord[j]).nr_pruned}
         IN  {[values |-> ord, domains |-> setitem(popped, var, domain_to_order)] :
                  ord \in sorted}

\* The outcomes [values, domains] of orderDomain: the list it may return and
\* the domain map as the call leaves it; the empty set when it raises
\* (subscript or pop of None).
orderDomain(asg, domains, var) ==
    IF domains.none THEN {}
    ELSE IF ~LCV
    THEN {[values |-> ord, domains |-> domains] : ord \in Orders(domains.v[var])}
    ELSE LET domain_to_order == domains.v[var]
             popped == pop(domains, var)
             fc(val) == forwardChecking(setitem(asg, var, val), popped, var)
             kept == {val \in domain_to_order :
                         \A pruned_var \in keys(fc(val).domains) :
                             Cardinality(fc(val).domains.v[pruned_var]) # 0}
             sorted == {ord \in Orders(kept) :
                           \A i, j \in 1..Len(ord) :
                               i < j => fc(ord[i]).nr_pruned <= fc(ord[j]).nr_pruned}
         IN  {[values |-> ord, domains |-> setitem(popped, var, domain_to_order)] :
                  ord \in sorted}

-----------------------------------------------------------------------------
\* The search controller.

Strategies == {"BF", "FC", "AC3"}

Pending == [kind |-> "pending", v |-> EmptyFn]

\* No direct call of the consistency engine or of the heuristics is made.
NoCall == [pc |-> "none"]

\* A call of _solveBruteForce, _solveForwardChecking or _solveAC3 at its
\* first line, with the domain map and the assignment it was passed; the
\* entry_ fields keep the entries the two held at that point.
NewFrame(domains, asg) ==
    [pc |-> "enter", var |-> NoVar, values |-> <<>>, domains |-> domains,
     prev_domain |-> {}, new_domains |-> EmptyDomains,
     entry_domains |-> domains.v, entry_assignment |-> asg.v]

top == stack[Len(stack)]

SetTop(f) == [stack EXCEPT ![Len(stack)] = f]

\* The entry points without the deep copy: the working dict is the caller's.
callerSeesAlias(caller, working) == working

\* The entry points rebind initialAssignment to a deep copy, so what the
\* caller's dict holds after a write to the working dict is what it held.
callerSees(caller, working) == caller

\* The instances: one to MaxVars variables, any symmetric neighbour graph,
\* any non-empty start domains within 1..MaxVal, any initial assignment of
\* start-domain values, built by the caller in any order.
Init ==
    /\ MRV \in BOOLEAN
    /\ LCV \in BOOLEAN
    /\ variables \in {1..n : n \in 1..MaxVars}
    /\ neighbors \in {g \in [variables -> SUBSET variables] :
                         \A a, b \in variables : a \notin g[a] /\ (b \in g[a] <=> a \in g[b])}
    /\ startDomain \in [variables -> (SUBSET (1..MaxVal)) \ {{}}]
    /\ initialAssignment \in
           UNION {UNION {{[k |-> ord, v |-> f] : ord \in Orders(S)} :
                            f \in {h \in [S -> 1..MaxVal] : \A x \in S : h[x] \in startDomain[x]}} :
                     S \in SUBSET variables}
    /\ given = initialAssignment
    /\ strategy = "idle"
    /\ assignment = EmptyAssignment
    /\ stack = <<>>
    /\ result = [s \in Strategies |-> Pending]
    /\ call = NoCall

\* The caller runs the three entry points one after the other on the same
\* instance and the same initial assignment.
solveBruteForce ==
    /\ strategy = "idle" /\ result["BF"].kind = "pending"
    /\ strategy' = "BF"
    /\ assignment' = initialAssignment
    /\ stack' = <<NewFrame(domainsFromAssignment(initialAssignment, variables),
                           initialAssignment)>>
    /\ initialAssignment' = callerSees(initialAssignment, assignment')
    /\ UNCHANGED <<call, MRV, LCV, variables, neighbors, startDomain, given, result>>

solveForwardChecking ==
    /\ strategy = "idle" /\ result["BF"].kind # "pending" /\ result["FC"].kind = "pending"
    /\ strategy' = "FC"
    /\ assignment' = initialAssignment
    /\ stack' = <<NewFrame(forwardChecking(initialAssignment,
                               domainsFromAssignment(initialAssignment, variables),
                               NoVar).domains,
                           initialAssignment)>>
    /\ initialAssignment' = callerSees(initialAssignment, assignment')
    /\ UNCHANGED <<call, MRV, LCV, variables, neighbors, startDomain, given, result>>

solveAC3 ==
    /\ strategy = "idle" /\ result["FC"].kind # "pending" /\ result["AC3"].kind = "pending"
    /\ strategy' = "AC3"
    /\ assignment' = initialAssignment
    /\ stack' = <<NewFrame(ac3(initialAssignment,
                               domainsFromAssignment(initialAssignment, variables)),
                           initialAssignment)>>
    /\ initialAssignment' = callerSees(initialAssignment, assignment')
    /\ UNCHANGED <<call, MRV, LCV, variables, neighbors, startDomain, given, result>>

\* The entry point returns r to the caller (or the exception reaches it).
\* The working dict lives on only as the returned value, kept in result.
Finish(r) ==
    /\ result' = [result EXCEPT ![strategy] = r]
    /\ strategy' = "idle"
    /\ stack' = <<>>
    /\ assignment' = EmptyAssignment
    /\ UNCHANGED <<call, MRV, LCV, variables, neighbors, startDomain, initialAssignment, given>>

\* if self.isComplete(assignment): return assignment, which every caller up
\* the recursion returns in turn.
ReturnAssignment ==
    /\ strategy # "idle" /\ top.pc = "enter"
    /\ isComplete(assignment)
    /\ Finish([kind |-> "solution", v |-> assignment.v])

\* selectVariable or orderDomain raises; no caller catches it.
Raise ==
    /\ strategy # "idle" /\ top.pc = "enter"
    /\ ~isComplete(assignment)
    /\ \/ selectVariable(assignment, top.domains) = {}
       \/ \E var \in selectVariable(assignment, top.domains) :
              orderDomain(assignment, top.domains, var) = {}
    /\ Finish([kind |-> "fault", v |-> EmptyFn])

\* var = self.selectVariable(...) and the list of self.orderDomain(...).
Select ==
    /\ strategy # "idle" /\ top.pc = "enter"
    /\ ~isComplete(assignment)
    /\ \E var \in selectVariable(assignment, top.domains) :
           \E o \in orderDomain(assignment, top.domains, var) :
               stack' = SetTop([top EXCEPT !.pc = "loop", !.var = var,
                                           !.values = o.values, !.domains = o.domains])
    /\ UNCHANGED <<call, MRV, LCV, variables, neighbors, startDomain, initialAssignment, given,
                   strategy, assignment, result>>

\* The frame after assignment[var] = value; prev_domain = domains.pop(var).
Assigned(f) ==
    [f EXCEPT !.domains = pop(f.domains, f.var), !.prev_domain = f.domains.v[f.var]]

\* One pass of the loop of _solveBruteForce up to the recursive call.
bfAssign ==
    /\ strategy = "BF" /\ top.pc = "loop" /\ top.values # <<>>
    /\ assignment' = setitem(assignment, top.var, Head(top.values))
    /\ initialAssignment' = callerSees(initialAssignment, assignment')
    /\ LET f == Assigned(top)
       IN  IF isValid(assignment')
           THEN stack' = Append(SetTop([f EXCEPT !.pc = "called"]), NewFrame(f.domains, assignment'))
           ELSE stack' = SetTop([f EXCEPT !.pc = "undo"])
    /\ UNCHANGED <<call, MRV, LCV, variables, neighbors, startDomain, given, strategy, result>>

\* One pass of the loop of _solveForwardChecking up to the recursive call.
fcAssign ==
    /\ strategy = "FC" /\ top.pc = "loop" /\ top.values # <<>>
    /\ assignment' = setitem(assignment, top.var, Head(top.values))
    /\ initialAssignment' = callerSees(initialAssignment, assignment')
    /\ LET f == Assigned(top)
           pruned_domains == forwardChecking(assignment', f.domains, f.var).domains
           valid == \A u \in keys(pruned_domains) : Cardinality(pruned_domains.v[u]) # 0
       IN  IF valid
           THEN stack' = Append(SetTop([f EXCEPT !.pc = "called"]), NewFrame(pruned_domains, assignment'))
           ELSE stack' = SetTop([f EXCEPT !.pc = "undo"])
    /\ UNCHANGED <<call, MRV, LCV, variables, neighbors, startDomain, given, strategy, result>>

\* One pass of the loop of _solveAC3 up to new_domains = forwardChecking(...).
ac3Assign ==
    /\ strategy = "AC3" /\ top.pc = "loop" /\ top.values # <<>>
    /\ assignment' = setitem(assignment, top.var, Head(top.values))
    /\ initialAssignment' = callerSees(initialAssignment, assignment')
    /\ LET f == Assigned(top)
       IN  stack' = SetTop([f EXCEPT !.pc = "fc",
                                     !.new_domains =
                                         forwardChecking(assignment', f.domains, f.var).domains])
    /\ UNCHANGED <<call, MRV, LCV, variables, neighbors, startDomain, given, strategy, result>>

\* new_domains = self.ac3(...) and the recursive call when it is not None.
ac3Propagate ==
    /\ strategy = "AC3" /\ top.pc = "fc"
    /\ LET new_domains == ac3(assignment, top.new_domains)
       IN  IF ~new_domains.none
           THEN stack' = Append(SetTop([top EXCEPT !.pc = "called",
                                                    !.new_domains = new_domains]),
                                NewFrame(new_domains, assignment))
           ELSE stack' = SetTop([top EXCEPT !.pc = "undo", !.new_domains = new_domains])
    /\ UNCHANGED <<call, MRV, LCV, variables, neighbors, startDomain, initialAssignment, given,
                   strategy, assignment, result>>

\* The undo without assignment.pop(var).
UndoKeepsAssignment ==
    /\ strategy # "idle" /\ top.pc = "undo"
    /\ stack' = SetTop([top EXCEPT !.pc = "loop",
                                   !.values = Tail(top.values),
                                   !.domains = setitem(top.domains, top.var, top.prev_domain),
                                   !.prev_domain = {},
                                   !.new_domains = EmptyDomains])
    /\ UNCHANGED <<call, MRV, LCV, variables, neighbors, startDomain, initialAssignment,
                   given, strategy, assignment, result>>

\* assignment.pop(var); domains[var] = prev_domain, and on to the next value.
Undo ==
    /\ strategy # "idle" /\ top.pc = "undo"
    /\ assignment' = pop(assignment, top.var)
    /\ initialAssignment' = callerSees(initialAssignment, assignment')
    /\ stack' = SetTop([top EXCEPT !.pc = "loop",
                                   !.values = Tail(top.values),
                                   !.domains = setitem(top.domains, top.var, top.prev_domain),
                                   !.prev_domain = {},
                                   !.new_domains = EmptyDomains])
    /\ UNCHANGED <<call, MRV, LCV, variables, neighbors, startDomain, given, strategy, result>>

\* The domain map the caller holds when the call it made returns None:
\* _solveBruteForce passes its own dict down, so the caller sees it as the
\* callee left it; the other two pass a copy.
domainsAfterCall(caller, callee) ==
    IF strategy = "BF" THEN callee.domains ELSE caller.domains

\* The loop is over: return None, to the caller's loop or to the entry point.
ReturnNone ==
    /\ strategy # "idle" /\ top.pc = "loop" /\ top.values = <<>>
    /\ IF Len(stack) = 1
       THEN Finish([kind |-> "none", v |-> EmptyFn])
       ELSE LET caller == stack[Len(stack) - 1]
            IN  /\ stack' = [SubSeq(stack, 1, Len(stack) - 1) EXCEPT ![Len(stack) - 1] =
                                [caller EXCEPT !.pc = "undo",
                                               !.domains = domainsAfterCall(caller, top)]]
                /\ UNCHANGED <<call, MRV, LCV, variables, neighbors, startDomain,
                               initialAssignment, given, strategy, assignment, result>>

Next ==
    \/ solveBruteForce
    \/ solveForwardChecking
    \/ solveAC3
    \/ ReturnAssignment
    \/ Raise
    \/ Select
    \/ bfAssign
    \/ fcAssign
    \/ ac3Assign
    \/ ac3Propagate
    \/ Undo
    \/ ReturnNone

Spec == Init /\ [][Next]_vars

-----------------------------------------------------------------------------
\* Direct calls of ac3, forwardChecking and orderDomain.

\* The variables a direct call leaves alone.
program == <<MRV, LCV, variables, neighbors, startDomain, initialAssignment, given,
             strategy, assignment, stack, result>>

\* A CSP instance of up to max_vars variables on which no entry point runs;
\* every variable has the start domain values.
InitInstance(max_vars, values) ==
    /\ variables \in {1..n : n \in 1..max_vars}
    /\ neighbors \in {g \in [variables -> SUBSET variables] :
                         \A a, b \in variables : a \notin g[a] /\ (b \in g[a] <=> a \in g[b])}
    /\ startDomain = [x \in variables |-> values]
    /\ initialAssignment = EmptyAssignment
    /\ given = EmptyAssignment
    /\ strategy = "idle"
    /\ stack = <<>>
    /\ result = [s \in Strategies |-> Pending]

\* The assignments with the keys in the order ord.
AssignmentsOf(ord, values) ==
    {[k |-> ord, v |-> f] : f \in [Range(ord) -> values]}

\* The domain maps with the keys in the order ord: any sets of values, the
\* empty set included.
DomainMaps(ord, values) ==
    {[none |-> FALSE, k |-> ord, v |-> f] : f \in [Range(ord) -> SUBSET values]}

\* The passes of the while loop of ac3 cannot outnumber the arcs of the
\* initial worklist plus the arcs one removed value can append.
MaxIterations == MaxVars * (MaxVars - 1) * (1 + MaxVal)

\* The caller is about to call ac3(assignment, domains); dedup tells whether
\* the test of line 331 is applied.
ac3Call(domains, dedup) ==
    [pc |-> "call", dedup |-> dedup, pass |-> 1, given |-> domains, input |-> domains,
     domains |-> EmptyDomains, queue |-> <<>>, iterations |-> 0,
     first |-> EmptyDomains, result |-> EmptyDomains]

InitAC3 ==
    /\ MRV = FALSE /\ LCV = FALSE
    /\ InitInstance(MaxVars, 1..MaxVal)
    /\ assignment \in UNION {AssignmentsOf(IterVars(S), 1..MaxVal) : S \in SUBSET variables}
    /\ call \in {ac3Call(d, TRUE) : d \in DomainMaps(IterVars(remainingVariables(assignment)), 1..MaxVal)}

InitAC3Live ==
    /\ MRV = FALSE /\ LCV = FALSE
    /\ InitInstance(MaxVars, 1..MaxVal)
    /\ assignment \in UNION {AssignmentsOf(IterVars(S), 1..MaxVal) : S \in SUBSET variables}
    /\ call \in {ac3Call(d, b) : d \in DomainMaps(IterVars(remainingVariables(assignment)), 1..MaxVal),
                                  b \in BOOLEAN}

\* domains = copy(domains) and the fill of the worklist.
ac3Begin ==
    /\ call.pc = "call"
    /\ call' = [call EXCEPT !.pc = "while", !.domains = call.input,
                            !.queue = ac3Queue(assignment), !.iterations = 0]
    /\ UNCHANGED program

\* One pass of the while loop, which may end in return None.
ac3Iterate ==
    /\ call.pc = "while" /\ Len(call.queue) > 0
    /\ call.iterations < MaxIterations
    /\ LET st == [domains |-> call.domains, queue |-> call.queue, failed |-> FALSE]
           next == IF call.dedup THEN ac3Step(st, assignment) ELSE ac3StepAll(st, assignment)
       IN  call' = [call EXCEPT !.domains = next.domains, !.queue = next.queue,
                                !.iterations = call.iterations + 1,
                                !.pc = IF next.failed THEN "returned" ELSE "while",
                                !.result = IF next.failed THEN NoneDomains ELSE call.result]
    /\ UNCHANGED program

\* The worklist is empty: return domains.
ac3Return ==
    /\ call.pc = "while" /\ Len(call.queue) = 0
    /\ call' = [call EXCEPT !.pc = "returned", !.result = call.domains]
    /\ UNCHANGED program

\* The caller calls ac3 again with the same assignment and the map returned.
ac3Again ==
    /\ call.pc = "returned" /\ call.pass = 1 /\ ~call.result.none
    /\ call' = [call EXCEPT !.pc = "call", !.pass = 2, !.first = call.result,
                            !.input = call.result]
    /\ UNCHANGED program

NextAC3 ==
    \/ ac3Begin
    \/ ac3Iterate
    \/ ac3Return
    \/ ac3Again

SpecAC3 == InitAC3 /\ [][NextAC3]_vars

\* The loop of ac3 is not suspended for ever: the call runs on.
SpecAC3Live == InitAC3Live /\ [][NextAC3]_vars /\ WF_vars(NextAC3)

\* forwardChecking without domains = copy(domains): the caller's map is the
\* map that is pruned and returned.
forwardCheckingInPlace(domains, returned) == returned

\* What the caller's domain map holds after forwardChecking(..., domains, ...)
\* returned the map returned: the call works on copy(domains) and puts new
\* sets into the copy, so the caller's map holds what it held.
inputAfterForwardChecking(domains, returned) == domains

\* The caller is about to call forwardChecking(assignment, domains, variable)
\* with any assignment, any domain map over the unassigned variables, and
\* variable omitted (NoVar) or assigned.
InitFC ==
    /\ MRV = FALSE /\ LCV = FALSE
    /\ InitInstance(MaxFCVars, 1..MaxVal)
    /\ assignment \in UNION {AssignmentsOf(IterVars(S), 1..MaxVal) : S \in SUBSET variables}
    /\ call \in {[pc |-> "call", variable |-> variable, given |-> d, input |-> d,
                   given_assignment |-> assignment,
                   result |-> [domains |-> EmptyDomains, nr_pruned |-> 0, returned |-> FALSE]] :
                     d \in DomainMaps(IterVars(remainingVariables(assignment)), 1..MaxVal),
                     variable \in {NoVar} \cup keys(assignment)}

\* The call of forwardChecking, from its first line to its return.
forwardCheckingCall ==
    /\ call.pc = "call"
    /\ LET r == forwardChecking(assignment, call.input, call.variable)
       IN  call' = [call EXCEPT !.pc = "returned", !.result = r,
                                !.input = inputAfterForwardChecking(call.input, r.domains)]
    /\ UNCHANGED program

SpecFC == InitFC /\ [][forwardCheckingCall]_vars

\* The caller is about to call orderDomain(assignment, domains, var) with LCV
\* enabled, var unassigned and domains over the unassigned variables.
InitLCV ==
    /\ MRV = FALSE /\ LCV = TRUE
    /\ InitInstance(MaxVars, 1..MaxLCVVal)
    /\ assignment \in UNION {AssignmentsOf(IterVars(S), 1..MaxLCVVal) :
                                 S \in (SUBSET variables) \ {variables}}
    /\ call \in {[pc |-> "call", var |-> var, given |-> d, input |-> d,
                   given_assignment |-> assignment, values |-> <<>>] :
                     d \in DomainMaps(IterVars(remainingVariables(assignment)), 1..MaxLCVVal),
                     var \in remainingVariables(assignment)}

\* The call of orderDomain, from its first line to its return.
orderDomainCall ==
    /\ call.pc = "call"
    /\ \E o \in orderDomain(assignment, call.input, call.var) :
           call' = [call EXCEPT !.pc = "returned", !.values = o.values, !.input = o.domains]
    /\ UNCHANGED program

SpecLCV == InitLCV /\ [][orderDomainCall]_vars

-----------------------------------------------------------------------------
\* What the claims speak of.

Done(s) == result[s].kind # "pending"

Returned(s) == result[s].kind = "solution"

AllDone == \A s \in Strategies : Done(s)

\* Every constraint between two assigned neighbours holds in f.
Consistent(f) ==
    \A a \in DOMAIN f : \A b \in (DOMAIN f) \cap neighbors[a] : ~(f[a] = f[b])

\* The complete valid assignments that extend f.
Completions(f) ==
    {c \in [variables -> 1..MaxVal] :
        /\ \A x \in variables : c[x] \in startDomain[x]
        /\ \A x \in DOMAIN f : c[x] = f[x]
        /\ Consistent(c)}

\* C1: an assignment returned by solveBruteForce, solveForwardChecking or
\* solveAC3 satisfies isValidPairwise on every pair of assigned neighbours.
C1_ReturnedIsValid ==
    \A s \in Strategies :
        Returned(s) =>
            \A a \in DOMAIN result[s].v : \A b \in (DOMAIN result[s].v) \cap neighbors[a] :
                isValidPairwise(a, result[s].v[a], b, result[s].v[b])

\* A solution was returned in which the search itself assigned a variable
\* that has a neighbour.
C1_Witness ==
    \E s \in Strategies :
        /\ Returned(s)
        /\ \E a \in variables \ keys(given) : neighbors[a] # {}

\* C2: a returned assignment has an entry for every variable and for no
\* other.
C2_ReturnedIsTotal ==
    \A s \in Strategies : Returned(s) => DOMAIN result[s].v = variables

\* A solution was returned for several variables, all assigned by the search.
C2_Witness ==
    \E s \in Strategies :
        Returned(s) /\ Cardinality(variables) > 1 /\ keys(given) = {}

\* C3: once the three entry points have run on the same instance and the
\* same initial assignment, either all returned no-solution or all returned
\* an assignment that is valid and complete.
C3_StrategyEquivalence ==
    AllDone =>
        \/ \A s \in Strategies : result[s].kind = "none"
        \/ \A s \in Strategies :
               /\ Returned(s)
               /\ Consistent(result[s].v)
               /\ DOMAIN result[s].v = variables

\* C4: when the initial assignment is consistent, leaves a variable open and
\* has exactly one valid completion, each entry point returns that
\* completion.
C4_ForcedCompletion ==
    (/\ Consistent(given.v)
     /\ keys(given) # variables
     /\ Cardinality(Completions(given.v)) = 1) =>
        \A s \in Strategies :
            Done(s) => Returned(s) /\ result[s].v \in Completions(given.v)

\* The scenario of C5: two mutually neighbouring variables with start domain
\* {1} and an empty initial assignment.
C5_Scenario ==
    /\ variables = {1, 2}
    /\ neighbors[1] = {2} /\ neighbors[2] = {1}
    /\ startDomain[1] = {1} /\ startDomain[2] = {1}
    /\ keys(given) = {}

\* C5: in that scenario each entry point returns the no-solution result.
C5_Unsatisfiable ==
    C5_Scenario => \A s \in Strategies : Done(s) => result[s].kind = "none"

\* C6: no-solution is returned only when no complete valid assignment
\* extends the initial assignment: the domain map a call is entered with
\* holds every value a valid completion of the current assignment uses, and
\* so does the rest of the list of values a call loops over; and one
\* variable with domain {1,2} and no neighbours is solved by solveBruteForce
\* with a value of {1,2}.
C6_SearchComplete ==
    /\ \A s \in Strategies : result[s].kind = "none" => Completions(given.v) = {}
    /\ (strategy # "idle" /\ top.pc = "enter") =>
           \A c \in Completions(assignment.v) : \A u \in keys(top.domains) :
               c[u] \in top.domains.v[u]
    /\ (strategy # "idle" /\ top.pc = "loop") =>
           \A c \in Completions(assignment.v) : c[top.var] \in Range(top.values)
    /\ (variables = {1} /\ startDomain[1] = {1, 2} /\ keys(given) = {} /\ Done("BF")) =>
           Returned("BF") /\ result["BF"].v[1] \in {1, 2}

\* AC3 search ran through several variables and returned no-solution.
C6_Witness ==
    /\ result["AC3"].kind = "none"
    /\ Cardinality(variables \ keys(given)) > 1

C8_InvalidInitial ==
    ~Consistent(given.v) => \A s \in Strategies : Done(s) => result[s].kind = "none"

\* C9: at the entry of every recursive call of the forward-checking and AC3
\* strategies, no domain holds a value that isValidPairwise rejects against
\* an assigned variable.
C9_DomainsConsistent ==
    (strategy \in {"FC", "AC3"} /\ top.pc = "enter") =>
        \A u \in keys(top.domains) : \A x \in top.domains.v[u] :
            \A a \in keys(assignment) : isValidPairwise(a, assignment.v[a], u, x)

\* The domains of map d are within those of map e, key by key.
Within(d, e) ==
    /\ keys(d) \subseteq keys(e)
    /\ \A u \in keys(d) : d.v[u] \subseteq e.v[u]

WithinStart(d) == \A u \in keys(d) : d.v[u] \subseteq startDomain[u]

\* C10: the map forwardChecking returns is within the map it was given, the
\* map ac3 returns is within the forward-checked map it was given, and every
\* map of every call is within the start domains.
C10_PruningMonotone ==
    [][LET f == stack[Len(stack)]
           g == stack'[Len(stack)]
       IN  /\ (strategy = "AC3" /\ f.pc = "loop" /\ f.values # <<>>) =>
                  Within(g.new_domains, pop(f.domains, f.var))
           /\ (strategy = "AC3" /\ f.pc = "fc" /\ ~g.new_domains.none) =>
                  Within(g.new_domains, f.new_domains)
           /\ (strategy = "FC" /\ f.pc = "loop" /\ f.values # <<>> /\ g.pc = "called") =>
                  Within(stack'[Len(stack')].domains, pop(f.domains, f.var))
           /\ \A i \in 1..Len(stack') :
                  WithinStart(stack'[i].domains) /\ WithinStart(stack'[i].new_domains)
      ]_vars

\* In a recursive call of the AC3 strategy a variable that has no assigned
\* neighbour has lost a value that the top call's map still had.
C10_Witness ==
    /\ strategy = "AC3" /\ Len(stack) > 1
    /\ \E u \in keys(top.domains) :
           /\ neighbors[u] \cap keys(assignment) = {}
           /\ top.domains.v[u] # {}
           /\ top.domains.v[u] # stack[1].domains.v[u]

\* C12: whenever a recursive call is at the head of its loop, before each
\* candidate value and when it returns None, the assignment and the domain
\* map it was passed hold the entries they held at its entry.
C12_TryRecurseUndo ==
    (strategy # "idle" /\ top.pc = "loop") =>
        /\ assignment.v = top.entry_assignment
        /\ top.domains.v = top.entry_domains

\* A nested call has tried every value of a non-empty domain and is about to
\* return None.
C12_Witness ==
    /\ strategy # "idle" /\ Len(stack) > 1 /\ ~LCV
    /\ top.pc = "loop" /\ top.values = <<>>
    /\ top.entry_domains[top.var] # {}

\* C13: a returned assignment gives every pre-fixed variable the value the
\* caller gave it, and the search selects only variables that the initial
\* assignment left open.
C13_ExtendsInitial ==
    /\ \A s \in Strategies :
           Returned(s) => \A x \in keys(given) : result[s].v[x] = given.v[x]
    /\ \A i \in 1..Len(stack) :
           stack[i].pc # "enter" => stack[i].var \notin keys(given)

\* solveAC3 has returned a solution for a partial, non-empty initial
\* assignment.
C13_Witness ==
    /\ Returned("AC3")
    /\ keys(given) # {} /\ Cardinality(variables \ keys(given)) > 1

\* The keys of domain map d whose domain is empty.
EmptyKeys(d) == {u \in keys(d) : d.v[u] = {}}

\* C11: when ac3 returned a domain map and is called again with the same
\* assignment and that map, it returns a map equal to it.
C11_Idempotent ==
    (call.pc = "returned" /\ call.pass = 2) => call.result = call.first

\* The second call has returned, after a first call that removed a value
\* from the map it was given.
C11_Witness ==
    /\ call.pc = "returned" /\ call.pass = 2
    /\ call.first # call.given

\* C14: ac3 returns no domain map that holds an empty domain, and it returns
\* the failure signal whenever a domain is empty on entry, whatever the
\* number of unassigned variables.
C14_FailureSignal ==
    (call.pc = "returned" /\ call.pass = 1) =>
        /\ ~call.result.none => EmptyKeys(call.result) = {}
        /\ EmptyKeys(call.given) # {} => call.result.none

\* C15: in a domain map that ac3 returns, every value of an unassigned
\* variable has, in the domain of every other unassigned variable, a value
\* with which isValidPairwise holds.
C15_ArcConsistent ==
    (call.pc = "returned" /\ ~call.result.none) =>
        \A X, Y \in remainingVariables(assignment) :
            X # Y => \A x \in call.result.v[X] : \E y \in call.result.v[Y] :
                         isValidPairwise(X, x, Y, y)

\* ac3 has returned a map for three unassigned variables after removing a
\* value from two of them.
C15_Witness ==
    /\ call.pc = "returned" /\ call.pass = 1 /\ ~call.result.none
    /\ Cardinality(remainingVariables(assignment)) > 2
    /\ Cardinality({u \in keys(call.given) : call.result.v[u] # call.given.v[u]}) > 1

\* C19: at every step of ac3 the worklist holds no arc twice and only
\* ordered pairs of two distinct unassigned variables, and a pass of the
\* loop leaves the worklist as its tail followed by arcs (neighbour, tail),
\* which it appends only when it removed a value from tail's domain.
C19_Worklist ==
    [][LET queue == call'.queue
           tail_var == Head(call.queue)[1]
           appended == SubSeq(queue, Len(call.queue), Len(queue))
       IN  /\ \A i, j \in 1..Len(queue) : i # j => queue[i] # queue[j]
           /\ \A i \in 1..Len(queue) :
                  /\ queue[i][1] # queue[i][2]
                  /\ {queue[i][1], queue[i][2]} \subseteq remainingVariables(assignment)
           /\ (call.pc = "while" /\ Len(call.queue) > 0) =>
                  /\ SubSeq(queue, 1, Len(call.queue) - 1) = Tail(call.queue)
                  /\ \A i \in 1..Len(appended) :
                         /\ appended[i][2] = tail_var
                         /\ appended[i][1] \in neighbors[tail_var]
                  /\ appended # <<>> =>
                         /\ call'.domains.v[tail_var] \subseteq call.domains.v[tail_var]
                         /\ call'.domains.v[tail_var] # call.domains.v[tail_var]
      ]_vars

\* The initial worklist of three unassigned variables has been worked
\* through and an arc appended after a removal is pending.
C19_Witness ==
    /\ call.pc = "while" /\ call.pass = 1
    /\ Len(call.queue) > 0
    /\ call.iterations >= Cardinality(remainingVariables(assignment))
                              * (Cardinality(remainingVariables(assignment)) - 1)
    /\ Cardinality(remainingVariables(assignment)) > 2

\* C20: every call of ac3 returns, with the test for a pending arc and
\* without it.
C20_Terminates ==
    (call.pc = "call") ~> (call.pc = "returned")

\* The variant without the test has returned a map after more passes of the
\* loop than the initial worklist has arcs.
C20_Witness ==
    /\ call.pc = "returned" /\ ~call.dedup /\ ~call.result.none
    /\ call.iterations > Cardinality(remainingVariables(assignment))
                             * (Cardinality(remainingVariables(assignment)) - 1)

\* The sum of f over S.
RECURSIVE SumOf(_, _)
SumOf(f, S) ==
    IF S = {} THEN 0
    ELSE LET u == CHOOSE x \in S : TRUE IN f[u] + SumOf(f, S \ {u})

\* The number of values that map d holds and map e does not.
NrRemoved(d, e) ==
    SumOf([u \in keys(d) |-> Cardinality(d.v[u]) - Cardinality(e.v[u])], keys(d))

\* The assigned variables a call of forwardChecking is to check.
Checked == IF call.variable = NoVar THEN keys(assignment) ELSE {call.variable}

\* The values of u's domain in d that isValidPairwise accepts against every
\* variable of A.
Filtered(d, u, A) ==
    {x \in d.v[u] : \A a \in A : isValidPairwise(a, assignment.v[a], u, x)}

\* C16: for a domain map without an empty domain, forwardChecking returns
\* for every variable exactly the values that isValidPairwise accepts against
\* the changed variable, or against every assigned variable when the changed
\* variable is omitted, and the count of the values removed.
C16_ForwardCheckingResult ==
    (call.pc = "returned" /\ EmptyKeys(call.given) = {}) =>
        /\ keys(call.result.domains) = keys(call.given)
        /\ \A u \in keys(call.given) :
               call.result.domains.v[u] = Filtered(call.given, u, Checked)
        /\ call.result.nr_pruned = NrRemoved(call.given, call.result.domains)

\* C16, amended: the returned count is the number of values removed; with
\* the changed variable given the returned domains are exactly the filtered
\* ones; with it omitted every returned domain lies between the filtered
\* domain and the given one, and all are exactly the filtered ones unless the
\* returned map holds an empty domain.
C16_Amended ==
    (call.pc = "returned" /\ EmptyKeys(call.given) = {}) =>
        /\ keys(call.result.domains) = keys(call.given)
        /\ call.result.nr_pruned = NrRemoved(call.given, call.result.domains)
        /\ \A u \in keys(call.given) :
               /\ Filtered(call.given, u, Checked) \subseteq call.result.domains.v[u]
               /\ call.result.domains.v[u] \subseteq call.given.v[u]
        /\ (call.variable # NoVar \/ EmptyKeys(call.result.domains) = {}) =>
               \A u \in keys(call.given) :
                   call.result.domains.v[u] = Filtered(call.given, u, Checked)

\* forwardChecking without the changed variable has returned, for a map
\* without an empty domain, a map with an empty domain and with a domain
\* that still holds a value an assigned variable excludes.
C16_Witness ==
    /\ call.pc = "returned" /\ call.variable = NoVar
    /\ EmptyKeys(call.given) = {}
    /\ EmptyKeys(call.result.domains) # {}
    /\ \E u \in keys(call.given) :
           call.result.domains.v[u] # Filtered(call.given, u, Checked)

LCVLeft(val, u) ==
    {x \in call.given.v[u] : isValidPairwise(call.var, val, u, x)}

\* The number of values of the other domains that val excludes.
LCVPruned(val) ==
    SumOf([u \in keys(call.given) \ {call.var} |->
               Cardinality(call.given.v[u]) - Cardinality(LCVLeft(val, u))],
          keys(call.given) \ {call.var})

\* The values of var's domain that leave no other domain empty.
LCVAllowed ==
    {val \in call.given.v[call.var] :
        \A u \in keys(call.given) \ {call.var} : LCVLeft(val, u) # {}}

\* C18: with LCV, orderDomain returns the values of var's domain that leave
\* no other domain empty, each once, in non-decreasing order of the number
\* of values they exclude from the other domains, and the domain map holds
\* the entries it held.
C18_LCVOrdering ==
    call.pc = "returned" =>
        /\ Range(call.values) = LCVAllowed
        /\ Len(call.values) = Cardinality(LCVAllowed)
        /\ \A i, j \in 1..Len(call.values) :
               i < j => LCVPruned(call.values[i]) <= LCVPruned(call.values[j])
        /\ call.input.v = call.given.v

\* orderDomain has returned two values that exclude different numbers of
\* values and has left out a third.
C18_Witness ==
    /\ call.pc = "returned"
    /\ Len(call.values) = 2
    /\ LCVPruned(call.values[1]) < LCVPruned(call.values[2])
    /\ Cardinality(call.given.v[call.var]) = 3

====
